---- MODULE Spec2Model ----
(***************************************************************************)
(* MaskMark: the synchronized image/mask geometric operators               *)
(* (models/noise_layers/geometric.py) and the COCO mask loader             *)
(* (utils/loader.py).                                                      *)
(*                                                                         *)
(* Tensors are modelled by one (batch, channel) plane: every slice and     *)
(* assignment of the operators is uniform over the two leading axes.  A    *)
(* plane is [h, w, px, tf]: px[r][c] is the pixel, and tf is a tag that    *)
(* names the value transform (rotation, warp, smoothing) the plane went    *)
(* through, <<>> when its values are the source's own.                     *)
(* Fractions (the float scale parameters) are pairs <<num, den>>.          *)
(* A generator (torch's, Python's random) is [seed, draws]: the seed its   *)
(* state derives from (None: the process's own entropy) and the number of  *)
(* draws made since, counted up to MaxDraws.  The values drawn are any     *)
(* value of the range asked for.                                           *)
(* A forward call is an operator giving the set of its outcomes (result or *)
(* exception, the values it sampled, what it did to the generators); the   *)
(* action of the call picks one.  SpecGeometric follows one operator from  *)
(* its construction through its first call; SpecLoader follows a dataset   *)
(* through the fetches of one batch and its collation.                     *)
(***************************************************************************)
EXTENDS Integers, Sequences, FiniteSets, TLC

VARIABLES layer, image, mask, call, out, torch_rng, py_rng,
          ds, batch, sample, collated

vars == <<layer, image, mask, call, out, torch_rng, py_rng,
          ds, batch, sample, collated>>

geo_vars == <<layer, image, mask, call, out, torch_rng, py_rng>>
loader_vars == <<ds, batch, sample, collated>>

(* ------------------------------ bounds -------------------------------- *)
MaxDim == 2
MaxDraws == 2
MaxAngle == 1
Dims == 1..MaxDim
Half == <<1, 2>>
One == <<1, 1>>
OneAndHalf == <<3, 2>>
Fractions == {Half, One, OneAndHalf}
Seeds == {1, 2}
PadColours == {-1, -2}
Angles == (0 - MaxAngle)..MaxAngle
MaxAnns == 2
MaxMasks == 2
MaxBatch == 2
ImageIds == {1, 2}
\* the decoded annotation masks: two pixels, in raster order
DecodedMasks == {<<1, 0>>, <<0, 1>>}
ZeroMask == <<0, 0>>

(* ------------------------------ values -------------------------------- *)
\* None for an integer-valued field, Unset for a fraction- or tuple-valued one
None == -999
Unset == <<>>
NoSize == <<>>

Min(a, b) == IF a < b THEN a ELSE b
Max(a, b) == IF a > b THEN a ELSE b

\* int(f * n) for a non-negative float f = num/den
IntMul(f, n) == (f[1] * n) \div f[2]
FracLeq(f, g) == f[1] * g[2] <= g[1] * f[2]

Plane(h, w, base) ==
  [h |-> h, w |-> w,
   px |-> [r \in 1..h |-> [c \in 1..w |-> base + 10 * r + c]],
   tf |-> <<>>]
NoTensor == [h |-> None, w |-> None, px |-> <<>>, tf |-> <<>>]

(* --------------------------- the generators --------------------------- *)
Entropy == [seed |-> None, draws |-> 0]
manual_seed(seed) == [seed |-> seed, draws |-> 0]
Advance(rng, n) == [rng EXCEPT !.draws = Min(@ + n, MaxDraws)]

\* torch.randint(low, high): an integer of low..high-1; raises when empty
randint(low, high) == low..(high - 1)
\* random.randint(a, b): both ends inclusive
random_randint(a, b) == a..b

(* ----------------------- torchvision primitives ----------------------- *)
\* F.resize(image, size, antialias=...): bilinear; the same size is the input
F_resize(t, size) ==
  [h |-> size[1], w |-> size[2],
   px |-> [r \in 1..size[1] |-> [c \in 1..size[2] |->
             t.px[((r - 1) * t.h) \div size[1] + 1][((c - 1) * t.w) \div size[2] + 1]]],
   tf |-> IF size = <<t.h, t.w>> THEN t.tf ELSE <<3, t.h, t.w>>]

\* F.resize(mask, size, interpolation=NEAREST): src = floor(dst * in / out)
F_resize_nearest(t, size) ==
  [h |-> size[1], w |-> size[2],
   px |-> [r \in 1..size[1] |-> [c \in 1..size[2] |->
             t.px[((r - 1) * t.h) \div size[1] + 1][((c - 1) * t.w) \div size[2] + 1]]],
   tf |-> t.tf]

\* t[:, :, i:i+h, j:j+w] and F.crop(t, i, j, h, w), window inside the plane
Slice(t, i, j, h, w) ==
  [h |-> h, w |-> w,
   px |-> [r \in 1..h |-> [c \in 1..w |-> t.px[i + r][j + c]]],
   tf |-> t.tf]

\* transforms.RandomCrop.get_params(img, output_size): the outcomes
RandomCrop_get_params(t, th, tw) ==
  IF t.h < th \/ t.w < tw
  THEN {[err |-> "CropParamsError", i |-> None, j |-> None, h |-> None, w |-> None, draws |-> 0]}
  ELSE IF t.w = tw /\ t.h = th
  THEN {[err |-> "", i |-> 0, j |-> 0, h |-> t.h, w |-> t.w, draws |-> 0]}
  ELSE {[err |-> "", i |-> i, j |-> j, h |-> th, w |-> tw, draws |-> 2] :
           i \in randint(0, t.h - th + 1), j \in randint(0, t.w - tw + 1)}

(* ------------------------------ outcomes ------------------------------ *)
Ok(img, msk, loc, seeded, td, pd) ==
  [status |-> "ok", image |-> img, mask |-> msk, loc |-> loc,
   seeded |-> seeded, tdraws |-> td, pdraws |-> pd]
Fail(status, loc, seeded, td, pd) ==
  [status |-> status, image |-> NoTensor, mask |-> NoTensor, loc |-> loc,
   seeded |-> seeded, tdraws |-> td, pdraws |-> pd]

\* a pair of torch.randint draws (height first, then width)
SizePair(lo_h, hi_h, lo_w, hi_w) ==
  IF randint(lo_h, hi_h) = {} THEN {[err |-> "RandintError", size |-> NoSize, draws |-> 0]}
  ELSE IF randint(lo_w, hi_w) = {} THEN {[err |-> "RandintError", size |-> NoSize, draws |-> 1]}
  ELSE {[err |-> "", size |-> <<a, b>>, draws |-> 2] :
           a \in randint(lo_h, hi_h), b \in randint(lo_w, hi_w)}
ConfigError == {[err |-> "ConfigError", size |-> NoSize, draws |-> 0]}

(* ---------------------------- CropResizePad --------------------------- *)
CRPLoc(new_size, crop_size, p, pad, colour) ==
  [new_size |-> new_size, crop_size |-> crop_size,
   i |-> p.i, j |-> p.j, h |-> p.h, w |-> p.w,
   pad_top |-> pad[1], pad_left |-> pad[2],
   pad_bottom |-> pad[3], pad_right |-> pad[4], pad_color |-> colour]
NoParams == [i |-> None, j |-> None, h |-> None, w |-> None]
NoPad == <<None, None, None, None>>

CropResizePad_get_random_resize_size(self, h, w) ==
  IF self.resize_min = Unset \/ self.resize_max = Unset THEN ConfigError
  ELSE SizePair(IntMul(self.resize_min, h), IntMul(self.resize_max, h) + 1,
                IntMul(self.resize_min, w), IntMul(self.resize_max, w) + 1)

CropResizePad_get_random_crop_size(self, h, w) ==
  IF self.crop_min = Unset \/ self.crop_max = Unset THEN ConfigError
  ELSE SizePair(IntMul(self.crop_min, h), Min(IntMul(self.crop_max, h) + 1, h),
                IntMul(self.crop_min, w), Min(IntMul(self.crop_max, w) + 1, w))

\* lines 156-163: the resized size and the crop size, sampled or explicit
CropResizePad_sizes(self, original_h, original_w, sizes) ==
  IF sizes = Unset
  THEN UNION {
         IF r.err # ""
         THEN {[err |-> r.err, new_size |-> NoSize, crop_size |-> NoSize, draws |-> r.draws]}
         ELSE {[err |-> c.err, new_size |-> r.size, crop_size |-> c.size,
                draws |-> r.draws + c.draws] :
                  c \in CropResizePad_get_random_crop_size(self, r.size[1], r.size[2])}
         : r \in CropResizePad_get_random_resize_size(self, original_h, original_w)}
  ELSE LET new_size == <<IntMul(sizes[1], original_h), IntMul(sizes[2], original_w)>>
       IN {[err |-> "", new_size |-> new_size,
            crop_size |-> <<IntMul(sizes[3], new_size[1]), IntMul(sizes[4], new_size[2])>>,
            draws |-> 0]}

\* mutant: the offset ignores the size of the crop
CropResizePad_pads_anywhere(original_h, original_w, h, w) ==
  {<<pad_top, pad_left, original_h - h - pad_top, original_w - w - pad_left>> :
     pad_top \in random_randint(0, original_h),
     pad_left \in random_randint(0, original_w)}

\* lines 181-185: where the crop is placed on the original canvas
CropResizePad_pads(original_h, original_w, h, w) ==
  {<<pad_top, pad_left, original_h - h - pad_top, original_w - w - pad_left>> :
     pad_top \in random_randint(0, Max(0, original_h - h)),
     pad_left \in random_randint(0, Max(0, original_w - w))}

\* lines 192-199: the canvas of the original size with the crop placed in it
CropResizePad_embed(cropped, original_h, original_w, pad_top, pad_left, fill) ==
  [h |-> original_h, w |-> original_w,
   px |-> [r \in 1..original_h |-> [c \in 1..original_w |->
             IF /\ pad_top < r /\ r <= pad_top + cropped.h
                /\ pad_left < c /\ c <= pad_left + cropped.w
             THEN cropped.px[r - pad_top][c - pad_left]
             ELSE fill]],
   tf |-> cropped.tf]

\* CropResizePad.forward(images, masks, sizes, seed): every outcome
CropResizePad_forward(self, images, masks, sizes, seed) ==
  LET original_h == images.h
      original_w == images.w
      Place(s, rimages, rmasks, p) ==
        IF p.h > original_h \/ p.w > original_w
        THEN {Fail("CropTooLarge", CRPLoc(s.new_size, s.crop_size, p, NoPad, None),
                   seed, s.draws + p.draws, 0)}
        ELSE LET cropped_images == Slice(rimages, p.i, p.j, p.h, p.w)
                 cropped_masks == Slice(rmasks, p.i, p.j, p.h, p.w)
             IN {Ok(CropResizePad_embed(cropped_images, original_h, original_w,
                                        pad[1], pad[2], colour),
                    CropResizePad_embed(cropped_masks, original_h, original_w,
                                        pad[1], pad[2], 0),
                    CRPLoc(s.new_size, s.crop_size, p, pad, colour),
                    seed, s.draws + p.draws + 1, 2) :
                  pad \in CropResizePad_pads(original_h, original_w, p.h, p.w),
                  colour \in PadColours}
      Resized(s) ==
        IF s.new_size[1] < 1 \/ s.new_size[2] < 1
        THEN {Fail("ResizeError", CRPLoc(s.new_size, s.crop_size, NoParams, NoPad, None),
                   seed, s.draws, 0)}
        ELSE LET rimages == F_resize(images, s.new_size)
                 rmasks == F_resize_nearest(masks, s.new_size)
                 crop_h == Min(s.crop_size[1], s.new_size[1])
                 crop_w == Min(s.crop_size[2], s.new_size[2])
             IN UNION {Place(s, rimages, rmasks, p) :
                         p \in RandomCrop_get_params(rimages, crop_h, crop_w)}
  IN UNION {IF s.err # ""
            THEN {Fail(s.err, CRPLoc(s.new_size, s.crop_size, NoParams, NoPad, None),
                       seed, s.draws, 0)}
            ELSE Resized(s)
            : s \in CropResizePad_sizes(self, original_h, original_w, sizes)}

(* ------------------- Rotate, Resize, Crop, UpperLeftCrop --------------- *)
\* F.rotate(t, angle): a rotation by 0 leaves the plane as it is
F_rotate(t, angle) == [t EXCEPT !.tf = IF angle = 0 THEN @ ELSE <<1, angle>>]

\* mutant: max_angle itself is never drawn
Rotate_get_random_angle_exclusive(self) ==
  IF self.min_angle = None \/ self.max_angle = None
  THEN {[err |-> "ConfigError", angle |-> None, draws |-> 0]}
  ELSE IF randint(self.min_angle, self.max_angle) = {}
  THEN {[err |-> "RandintError", angle |-> None, draws |-> 0]}
  ELSE {[err |-> "", angle |-> a, draws |-> 1] :
          a \in randint(self.min_angle, self.max_angle)}

Rotate_get_random_angle(self) ==
  IF self.min_angle = None \/ self.max_angle = None
  THEN {[err |-> "ConfigError", angle |-> None, draws |-> 0]}
  ELSE IF randint(self.min_angle, self.max_angle + 1) = {}
  THEN {[err |-> "RandintError", angle |-> None, draws |-> 0]}
  ELSE {[err |-> "", angle |-> a, draws |-> 1] :
          a \in randint(self.min_angle, self.max_angle + 1)}

Rotate_forward(self, img, msk, angle) ==
  LET angles == IF angle = None THEN Rotate_get_random_angle(self)
                ELSE {[err |-> "", angle |-> angle, draws |-> 0]}
  IN {IF a.err # "" THEN Fail(a.err, [angle |-> None], None, a.draws, 0)
      ELSE Ok(F_rotate(img, a.angle), F_rotate(msk, a.angle),
              [angle |-> a.angle], None, a.draws, 0)
      : a \in angles}

\* get_random_size of Resize, Crop and UpperLeftCrop (the same code three times)
get_random_size(self, h, w) ==
  IF self.min_size = Unset \/ self.max_size = Unset THEN ConfigError
  ELSE SizePair(IntMul(self.min_size, h), IntMul(self.max_size, h) + 1,
                IntMul(self.min_size, w), IntMul(self.max_size, w) + 1)

\* output_size of the three forwards: sampled, or (int(size * h), int(size * w))
output_sizes(self, img, size) ==
  IF size = Unset THEN get_random_size(self, img.h, img.w)
  ELSE {[err |-> "", size |-> <<IntMul(size, img.h), IntMul(size, img.w)>>, draws |-> 0]}

SizeLoc(s, p) == [output_size |-> s.size, i |-> p.i, j |-> p.j, h |-> p.h, w |-> p.w]

Resize_forward(self, img, msk, size) ==
  {IF s.err # "" THEN Fail(s.err, SizeLoc(s, NoParams), None, s.draws, 0)
   ELSE IF s.size[1] < 1 \/ s.size[2] < 1
   THEN Fail("ResizeError", SizeLoc(s, NoParams), None, s.draws, 0)
   ELSE Ok(F_resize(img, s.size), F_resize_nearest(msk, s.size),
           SizeLoc(s, NoParams), None, s.draws, 0)
   : s \in output_sizes(self, img, size)}

Crop_forward(self, img, msk, size) ==
  UNION {IF s.err # "" THEN {Fail(s.err, SizeLoc(s, NoParams), None, s.draws, 0)}
         ELSE {IF p.err # ""
               THEN Fail(p.err, SizeLoc(s, NoParams), None, s.draws + p.draws, 0)
               ELSE Ok(Slice(img, p.i, p.j, p.h, p.w), Slice(msk, p.i, p.j, p.h, p.w),
                       SizeLoc(s, p), None, s.draws + p.draws, 0)
               : p \in RandomCrop_get_params(img, s.size[1], s.size[2])}
         : s \in output_sizes(self, img, size)}

\* mutant: the sampled offset is used, as in Crop
UpperLeftCrop_forward_offset(self, img, msk, size) == Crop_forward(self, img, msk, size)

UpperLeftCrop_forward(self, img, msk, size) ==
  UNION {IF s.err # "" THEN {Fail(s.err, SizeLoc(s, NoParams), None, s.draws, 0)}
         ELSE {IF p.err # ""
               THEN Fail(p.err, SizeLoc(s, NoParams), None, s.draws + p.draws, 0)
               ELSE Ok(Slice(img, 0, 0, p.h, p.w), Slice(msk, 0, 0, p.h, p.w),
                       SizeLoc(s, p), None, s.draws + p.draws, 0)
               : p \in RandomCrop_get_params(img, s.size[1], s.size[2])}
         : s \in output_sizes(self, img, size)}

(* ------------------------------ Perspective --------------------------- *)
\* min + rand() * (max - min), rand() in [0, 1): min itself, or strictly between
Perspective_get_random_distortion_scale(self) ==
  IF self.min_distortion_scale = Unset \/ self.max_distortion_scale = Unset
  THEN {[err |-> "ConfigError", scale |-> Unset, draws |-> 0]}
  ELSE {[err |-> "", scale |-> f, draws |-> 1] :
          f \in {g \in Fractions \cup {self.min_distortion_scale} :
                   \/ g = self.min_distortion_scale
                   \/ /\ FracLeq(self.min_distortion_scale, g)
                      /\ ~FracLeq(self.max_distortion_scale, g)
                   \/ /\ FracLeq(g, self.min_distortion_scale)
                      /\ ~FracLeq(g, self.max_distortion_scale)}}

\* the endpoints <<topleft, topright, botright, botleft>>, each [x, y]
Perspective_get_perspective_params(width, height, distortion_scale) ==
  LET half_height == height \div 2
      half_width == width \div 2
      dw == IntMul(distortion_scale, half_width)
      dh == IntMul(distortion_scale, half_height)
      left == randint(0, dw + 1)
      right == randint(width - dw - 1, width)
      top == randint(0, dh + 1)
      bottom == randint(height - dh - 1, height)
  IN {<<x1, y1, x2, y2, x3, y3, x4, y4>> :
        x1 \in left, y1 \in top, x2 \in right, y2 \in top,
        x3 \in right, y3 \in bottom, x4 \in left, y4 \in bottom}

\* F.perspective(t, startpoints, endpoints)
F_perspective(t, endpoints) == [t EXCEPT !.tf = <<2>> \o endpoints]

Perspective_forward(self, img, msk, distortion_scale) ==
  LET scales == IF distortion_scale = Unset
                THEN Perspective_get_random_distortion_scale(self)
                ELSE {[err |-> "", scale |-> distortion_scale, draws |-> 0]}
  IN UNION {IF d.err # ""
            THEN {Fail(d.err, [distortion_scale |-> Unset, endpoints |-> <<>>],
                       None, d.draws, 0)}
            ELSE {Ok(F_perspective(img, e), F_perspective(msk, e),
                     [distortion_scale |-> d.scale, endpoints |-> e],
                     self.random_seed,
                     IF self.random_seed = None THEN d.draws + 8 ELSE 8, 0)
                  : e \in Perspective_get_perspective_params(img.w, img.h, d.scale)}
            : d \in scales}

(* ------------------------ Identity, HorizontalFlip -------------------- *)
F_hflip(t) ==
  [t EXCEPT !.px = [r \in 1..t.h |-> [c \in 1..t.w |-> t.px[r][t.w + 1 - c]]]]

Identity_forward(self, img, msk) == {Ok(img, msk, [none |-> None], None, 0, 0)}
HorizontalFlip_forward(self, img, msk) ==
  {Ok(F_hflip(img), F_hflip(msk), [none |-> None], None, 0, 0)}

(* ------------------------------ the loader ---------------------------- *)
\* random.shuffle(anns): any order of the same annotations
Shuffles(anns) ==
  LET n == Len(anns)
  IN {[k \in 1..n |-> anns[p[k]]] :
        p \in {q \in [1..n -> 1..n] : \A a, b \in 1..n : q[a] = q[b] => a = b}}

\* mutant: the accumulator is overwritten, not maximised
np_maximum_overwrite(a, b) == b

\* np.maximum(mask, m), element-wise
np_maximum(a, b) == [k \in 1..Len(a) |-> Max(a[k], b[k])]

\* lines 66-71: the accumulator after the loop over anns
RECURSIVE UnionLoop(_, _)
UnionLoop(acc, anns) ==
  IF anns = <<>> THEN acc
  ELSE UnionLoop(np_maximum(acc, Head(anns)), Tail(anns))

\* mutant: no truncation to the first nb_masks annotations
Truncate_all(anns, nb_masks) == anns

\* anns[:nb_masks]
Truncate(anns, nb_masks) == SubSeq(anns, 1, Min(nb_masks, Len(anns)))

\* torch.zeros((n, H, W))
ZeroChannels(n) == [k \in 1..n |-> ZeroMask]

NoneLoad == [none |-> TRUE, order |-> <<>>, nb_masks |-> None, mask |-> <<>>]

\* CocoImageIDWrapper._load_mask(id): every outcome
load_mask(self, id) ==
  LET anns == self.anns[id]
  IN IF anns = <<>> THEN {NoneLoad}
     ELSE UNION {
       IF ~self.multi_w
       THEN {[none |-> FALSE, order |-> order, nb_masks |-> None,
              mask |-> <<UnionLoop(ZeroMask, order)>>]}
       ELSE {LET masks == Truncate(order, nb_masks)
             IN [none |-> FALSE, order |-> order, nb_masks |-> nb_masks,
                 mask |-> IF masks # <<>>
                          THEN IF Len(masks) < nb_masks
                               THEN masks \o ZeroChannels(nb_masks - Len(masks))
                               ELSE masks
                          ELSE ZeroChannels(nb_masks)]
             : nb_masks \in IF self.is_train THEN 1..self.max_nb_masks
                            ELSE {self.max_nb_masks}}
       : order \in IF self.random_nb_object THEN Shuffles(anns) ELSE {anns}}

NoneItem == [none |-> TRUE, image |-> None, mask |-> <<>>]

\* mutant: the missing mask is passed on instead of skipping the sample
getitem_noskip(index, loaded) ==
  [none |-> FALSE, image |-> index, mask |-> loaded.mask]

\* CocoImageIDWrapper.__getitem__(index): the item of a load
getitem(index, loaded) ==
  IF loaded.none THEN NoneItem
  ELSE [none |-> FALSE, image |-> index, mask |-> loaded.mask]

\* mutant: the padding is put in front of the sample's channels
F_pad_front(m, pad_size) == [k \in 1..pad_size |-> ZeroMask] \o m

\* F.pad(mask, (0, 0, 0, 0, 0, pad_size), value=0): channels appended
F_pad(m, pad_size) == m \o ZeroChannels(pad_size)

RECURSIVE MaxChannels(_)
MaxChannels(items) ==
  IF items = <<>> THEN 0
  ELSE Max(Len(Head(items).mask), MaxChannels(Tail(items)))

\* custom_collate(batch)
custom_collate(items) ==
  LET kept == SelectSeq(items, LAMBDA item : ~item.none)
      max_masks == MaxChannels(kept)
  IN IF kept = <<>> THEN [empty |-> TRUE, images |-> <<>>, masks |-> <<>>]
     ELSE IF max_masks = 1
     THEN [empty |-> FALSE,
           images |-> [k \in 1..Len(kept) |-> kept[k].image],
           masks |-> [k \in 1..Len(kept) |-> kept[k].mask]]
     ELSE [empty |-> FALSE,
           images |-> [k \in 1..Len(kept) |-> kept[k].image],
           masks |-> [k \in 1..Len(kept) |->
                        LET pad_size == max_masks - Len(kept[k].mask)
                        IN IF pad_size > 0 THEN F_pad(kept[k].mask, pad_size)
                           ELSE kept[k].mask]]

(* ------------------------------ the states ---------------------------- *)
Opt(S) == S \cup {Unset}
OptInt(S) == S \cup {None}

Layers ==
  {[cls |-> "Identity"], [cls |-> "HorizontalFlip"]}
  \cup {[cls |-> "Rotate", min_angle |-> a, max_angle |-> b] :
          a \in OptInt(Angles), b \in OptInt(Angles)}
  \cup {[cls |-> c, min_size |-> a, max_size |-> b] :
          c \in {"Resize", "Crop", "UpperLeftCrop"},
          a \in Opt(Fractions), b \in Opt(Fractions)}
  \cup {[cls |-> "CropResizePad", resize_min |-> a, resize_max |-> b,
         crop_min |-> c, crop_max |-> d] :
          a \in Opt(Fractions), b \in Opt(Fractions),
          c \in Opt(Fractions), d \in Opt(Fractions)}
  \cup {[cls |-> "Perspective", min_distortion_scale |-> a,
         max_distortion_scale |-> b, random_seed |-> r] :
          a \in Opt(Fractions), b \in Opt(Fractions), r \in OptInt(Seeds)}

NotCalled == [status |-> "ready", image |-> NoTensor, mask |-> NoTensor,
              loc |-> [none |-> None]]
NoCall == [op |-> "none"]
NoDataset == [random_nb_object |-> FALSE, max_nb_masks |-> 0, multi_w |-> FALSE,
              is_train |-> FALSE, anns |-> <<>>]
NotCollated == [input |-> <<>>, empty |-> TRUE, images |-> <<>>, masks |-> <<>>,
                done |-> FALSE]

NoSample == [index |-> None, load |-> NoneLoad]

AnnLists == UNION {[1..n -> DecodedMasks] : n \in 0..MaxAnns}
Datasets ==
  {[random_nb_object |-> r, max_nb_masks |-> k, multi_w |-> m, is_train |-> t,
    anns |-> a] :
     r \in BOOLEAN, k \in 1..MaxMasks, m \in BOOLEAN, t \in BOOLEAN,
     a \in [ImageIds -> AnnLists]}

\* after construction of one operator, with an image/mask pair at hand
InitGeometric ==
  /\ layer \in Layers
  /\ \E h \in Dims, w \in Dims :
       /\ image = Plane(h, w, 100)
       /\ mask = Plane(h, w, 0)
  /\ call = NoCall
  /\ out = NotCalled
  /\ torch_rng = Entropy
  /\ py_rng = Entropy
  /\ ds = NoDataset
  /\ batch = <<>>
  /\ sample = NoSample
  /\ collated = NotCollated

\* after construction of the dataset
InitLoader ==
  /\ ds \in Datasets
  /\ batch = <<>>
  /\ sample = NoSample
  /\ collated = NotCollated
  /\ layer = [cls |-> "Identity"]
  /\ image = NoTensor
  /\ mask = NoTensor
  /\ call = NoCall
  /\ out = NotCalled
  /\ torch_rng = Entropy
  /\ py_rng = Entropy

(* ------------------------------ the actions --------------------------- *)
\* the call returns (or raises): its result and what it did to the generators
Return(c, o) ==
  /\ call' = c
  /\ out' = [status |-> o.status, image |-> o.image, mask |-> o.mask, loc |-> o.loc]
  /\ torch_rng' = IF o.seeded # None THEN Advance(manual_seed(o.seeded), o.tdraws)
                  ELSE Advance(torch_rng, o.tdraws)
  /\ py_rng' = IF o.seeded # None THEN Advance(manual_seed(o.seeded), o.pdraws)
               ELSE Advance(py_rng, o.pdraws)
  /\ UNCHANGED <<layer, image, mask>>
  /\ UNCHANGED loader_vars

IdentityCall ==
  /\ layer.cls = "Identity" /\ out.status = "ready"
  /\ \E o \in Identity_forward(layer, image, mask) : Return([op |-> "Identity"], o)

HorizontalFlipCall ==
  /\ layer.cls = "HorizontalFlip" /\ out.status = "ready"
  /\ \E o \in HorizontalFlip_forward(layer, image, mask) :
       Return([op |-> "HorizontalFlip"], o)

RotateCall ==
  /\ layer.cls = "Rotate" /\ out.status = "ready"
  /\ \E angle \in OptInt(Angles) :
       \E o \in Rotate_forward(layer, image, mask, angle) :
         Return([op |-> "Rotate", angle |-> angle], o)

ResizeCall ==
  /\ layer.cls = "Resize" /\ out.status = "ready"
  /\ \E size \in Opt(Fractions) :
       \E o \in Resize_forward(layer, image, mask, size) :
         Return([op |-> "Resize", size |-> size], o)

CropCall ==
  /\ layer.cls = "Crop" /\ out.status = "ready"
  /\ \E size \in Opt(Fractions) :
       \E o \in Crop_forward(layer, image, mask, size) :
         Return([op |-> "Crop", size |-> size], o)

UpperLeftCropCall ==
  /\ layer.cls = "UpperLeftCrop" /\ out.status = "ready"
  /\ \E size \in Opt(Fractions) :
       \E o \in UpperLeftCrop_forward(layer, image, mask, size) :
         Return([op |-> "UpperLeftCrop", size |-> size], o)

\* Explicit sizes never read the bounds (lines 160-163): they are exercised
\* on the layers whose four bounds agree (all unset, or all the same).
ExplicitSizes(self) ==
  IF self.resize_min = self.resize_max /\ self.resize_max = self.crop_min
     /\ self.crop_min = self.crop_max
  THEN Fractions \X Fractions \X Fractions \X Fractions
  ELSE {}

CropResizePadCall ==
  /\ layer.cls = "CropResizePad" /\ out.status = "ready"
  /\ \E sizes \in Opt(ExplicitSizes(layer)), seed \in OptInt(Seeds) :
       \E o \in CropResizePad_forward(layer, image, mask, sizes, seed) :
         Return([op |-> "CropResizePad", sizes |-> sizes, seed |-> seed], o)

\* An explicit distortion scale never reads the bounds (lines 218-221): it is
\* exercised on the layers whose two bounds agree.
ExplicitScales(self) ==
  IF self.min_distortion_scale = self.max_distortion_scale THEN Fractions ELSE {}

PerspectiveCall ==
  /\ layer.cls = "Perspective" /\ out.status = "ready"
  /\ \E distortion_scale \in Opt(ExplicitScales(layer)) :
       \E o \in Perspective_forward(layer, image, mask, distortion_scale) :
         Return([op |-> "Perspective", distortion_scale |-> distortion_scale], o)

\* the DataLoader fetches dataset[index] into the batch it is building
Fetch ==
  /\ ~collated.done
  /\ Len(batch) < MaxBatch
  /\ \E index \in ImageIds :
       \E loaded \in load_mask(ds, index) :
         /\ sample' = [index |-> index, load |-> loaded]
         /\ batch' = Append(batch, getitem(index, loaded))
  /\ UNCHANGED <<ds, collated>>
  /\ UNCHANGED geo_vars

\* the DataLoader hands the batch to collate_fn
Collate ==
  /\ ~collated.done
  /\ collated' = custom_collate(batch) @@ [input |-> batch, done |-> TRUE]
  /\ batch' = <<>>
  /\ UNCHANGED <<ds, sample>>
  /\ UNCHANGED geo_vars

NextGeometric ==
  \/ IdentityCall
  \/ HorizontalFlipCall
  \/ RotateCall
  \/ ResizeCall
  \/ CropCall
  \/ UpperLeftCropCall
  \/ CropResizePadCall
  \/ PerspectiveCall

NextLoader ==
  \/ Fetch
  \/ Collate

SpecGeometric == InitGeometric /\ [][NextGeometric]_vars
SpecLoader == InitLoader /\ [][NextLoader]_vars

(* ------------------------------ the loader's claims ------------------- *)
Kept(items) == SelectSeq(items, LAMBDA item : ~item.none)
ChannelCounts(items) == {Len(items[k].mask) : k \in 1..Len(items)}
Largest(S) == CHOOSE m \in S : \A n \in S : n <= m
FetchedSome == sample.index # None

C2_SkipPropagation ==
  /\ FetchedSome =>
       /\ (ds.anns[sample.index] = <<>>) <=> sample.load.none
       /\ batch # <<>> => (batch[Len(batch)].none <=> sample.load.none)
  /\ collated.done =>
       /\ Len(collated.images) = Len(Kept(collated.input))
       /\ \A k \in 1..Len(collated.images) :
            /\ ds.anns[collated.images[k]] # <<>>
            /\ collated.images[k] = Kept(collated.input)[k].image
       /\ (\A k \in 1..Len(collated.input) : collated.input[k].none) =>
            (collated.empty /\ collated.images = <<>> /\ collated.masks = <<>>)

C2_Witness ==
  /\ collated.done /\ ~collated.empty
  /\ Len(collated.input) = 2
  /\ collated.input[1].none
  /\ ~collated.input[2].none
  /\ ds.multi_w

C2_WitnessAllSkipped ==
  /\ collated.done /\ collated.empty
  /\ Len(collated.input) = 2
  /\ ~ds.multi_w

IsPermutation(a, b) ==
  /\ Len(a) = Len(b)
  /\ \E p \in [1..Len(a) -> 1..Len(a)] :
       /\ \A x, y \in 1..Len(a) : p[x] = p[y] => x = y
       /\ \A x \in 1..Len(a) : a[x] = b[p[x]]

C8_UnionMode ==
  (FetchedSome /\ ~ds.multi_w /\ ds.anns[sample.index] # <<>>) =>
    LET anns == ds.anns[sample.index]
    IN /\ ~sample.load.none
       /\ Len(sample.load.mask) = 1
       /\ sample.load.mask[1] =
            [p \in 1..Len(ZeroMask) |->
               IF \E a \in 1..Len(anns) : anns[a][p] = 1 THEN 1 ELSE 0]

C8_Witness ==
  /\ FetchedSome /\ ~ds.multi_w /\ ds.random_nb_object
  /\ ds.max_nb_masks = 1
  /\ Len(ds.anns[sample.index]) = 2
  /\ sample.load.order # ds.anns[sample.index]
  /\ sample.load.mask = <<(<<1, 1>>)>>

(* ------------------------- the operators' claims ---------------------- *)
Called == out.status # "ready"
IsCRP == layer.cls = "CropResizePad"

\* the outcomes the call made could have had
Outcomes ==
  CASE call.op = "Rotate" -> Rotate_forward(layer, image, mask, call.angle)
    [] call.op = "Resize" -> Resize_forward(layer, image, mask, call.size)
    [] call.op = "Crop" -> Crop_forward(layer, image, mask, call.size)
    [] call.op = "UpperLeftCrop" -> UpperLeftCrop_forward(layer, image, mask, call.size)
    [] call.op = "CropResizePad" ->
         CropResizePad_forward(layer, image, mask, call.sizes, call.seed)
    [] call.op = "Perspective" ->
         Perspective_forward(layer, image, mask, call.distortion_scale)
    [] call.op = "Identity" -> Identity_forward(layer, image, mask)
    [] call.op = "HorizontalFlip" -> HorizontalFlip_forward(layer, image, mask)

\* the call was given its parameters
Explicit ==
  CASE call.op = "Rotate" -> call.angle # None
    [] call.op \in {"Resize", "Crop", "UpperLeftCrop"} -> call.size # Unset
    [] call.op = "CropResizePad" -> call.sizes # Unset
    [] call.op = "Perspective" -> call.distortion_scale # Unset
    [] OTHER -> FALSE

\* one of the bounds the operator samples from is unset
BoundUnset ==
  CASE layer.cls = "Rotate" -> layer.min_angle = None \/ layer.max_angle = None
    [] layer.cls \in {"Resize", "Crop", "UpperLeftCrop"} ->
         layer.min_size = Unset \/ layer.max_size = Unset
    [] layer.cls = "CropResizePad" ->
         \/ layer.resize_min = Unset \/ layer.resize_max = Unset
         \/ layer.crop_min = Unset \/ layer.crop_max = Unset
    [] layer.cls = "Perspective" ->
         layer.min_distortion_scale = Unset \/ layer.max_distortion_scale = Unset
    [] OTHER -> FALSE

SameResult(o) ==
  o.status = out.status /\ o.image = out.image /\ o.mask = out.mask

\* resize_min <= resize_max <= 1 and crop_min <= crop_max <= 1, or an
\* explicit 4-tuple of fractions not above 1
ValidCRP ==
  IF call.sizes = Unset
  THEN /\ ~BoundUnset
       /\ FracLeq(layer.resize_min, layer.resize_max) /\ FracLeq(layer.resize_max, One)
       /\ FracLeq(layer.crop_min, layer.crop_max) /\ FracLeq(layer.crop_max, One)
  ELSE \A k \in 1..4 : FracLeq(call.sizes[k], One)

\* the smallest resized size the call can choose has no empty dimension
ResizedNonEmpty ==
  IF call.sizes = Unset
  THEN IntMul(layer.resize_min, image.h) >= 1 /\ IntMul(layer.resize_min, image.w) >= 1
  ELSE IntMul(call.sizes[1], image.h) >= 1 /\ IntMul(call.sizes[2], image.w) >= 1

\* C3 (as claimed, for inputs whose resized size is at least one pixel each
\* way): every valid CropResizePad call completes and returns an image and a
\* mask of the original height and width; the crop is clamped to the resized
\* size, and a clamped crop larger than the canvas is rejected.
C3_CanvasInvariant ==
  (Called /\ IsCRP) =>
    /\ (ValidCRP /\ ResizedNonEmpty) =>
         /\ out.status = "ok"
         /\ out.image.h = image.h /\ out.image.w = image.w
         /\ out.mask.h = image.h /\ out.mask.w = image.w
    /\ out.status \in {"ok", "CropTooLarge"} =>
         /\ out.loc.h <= out.loc.new_size[1] /\ out.loc.w <= out.loc.new_size[2]
         /\ (out.loc.h > image.h \/ out.loc.w > image.w) <=> out.status = "CropTooLarge"

\* C4 (as claimed): with all four bounds 1.0 and no explicit sizes the call
\* succeeds, samples the input size twice, places the crop at offset 0 and
\* returns the inputs.
C4_NoOp ==
  (Called /\ IsCRP /\ call.sizes = Unset
     /\ layer.resize_min = One /\ layer.resize_max = One
     /\ layer.crop_min = One /\ layer.crop_max = One) =>
    /\ out.status = "ok"
    /\ out.loc.new_size = <<image.h, image.w>>
    /\ out.loc.crop_size = <<image.h, image.w>>
    /\ out.loc.i = 0 /\ out.loc.j = 0
    /\ out.loc.pad_top = 0 /\ out.loc.pad_left = 0
    /\ out.loc.pad_bottom = 0 /\ out.loc.pad_right = 0
    /\ out.image = image /\ out.mask = mask

\* C5 (as claimed): a seed given to a call does not leak: once the call has
\* returned, the state of the process-wide generators (what a later unseeded
\* call draws from) does not derive from any call's seed.
C5_SeedScoped ==
  Called => (torch_rng.seed = None /\ py_rng.seed = None)

RotateAngleInRange ==
  (layer.cls = "Rotate" /\ Called /\ call.angle = None /\ ~BoundUnset) =>
    /\ out.status = "ok" =>
         (layer.min_angle <= out.loc.angle /\ out.loc.angle <= layer.max_angle)
    /\ \A a \in layer.min_angle..layer.max_angle :
         \E o \in Outcomes : o.status = "ok" /\ o.loc.angle = a

\* C9 (as claimed): the configuration error is raised exactly when a call
\* without explicit parameters finds one of its bounds unset, and a
\* self-sampled angle of Rotate lies in min_angle..max_angle, ends included.
C9_ConfigErrorExactly ==
  /\ Called => ((out.status = "ConfigError") <=> (~Explicit /\ BoundUnset))
  /\ RotateAngleInRange

\* CropResizePad samples the resized size before it looks at the crop bounds
ResizeSamplingRaises ==
  /\ IsCRP
  /\ layer.resize_min # Unset /\ layer.resize_max # Unset
  /\ \/ IntMul(layer.resize_min, image.h) > IntMul(layer.resize_max, image.h)
     \/ IntMul(layer.resize_min, image.w) > IntMul(layer.resize_max, image.w)

\* C9 (amended): as claimed, except that CropResizePad checks its crop
\* bounds only after sampling the resized size: when the resize bounds are
\* set but inverted, torch.randint raises first and the configuration error
\* for unset crop bounds is not reached.
C9_ConfigError ==
  /\ Called =>
       ((out.status = "ConfigError") <=>
          (~Explicit /\ BoundUnset /\ ~ResizeSamplingRaises))
  /\ (Called /\ ~Explicit /\ BoundUnset /\ ResizeSamplingRaises) =>
       out.status = "RandintError"
  /\ RotateAngleInRange

C9_Witness ==
  /\ Called /\ IsCRP /\ call.sizes = Unset
  /\ layer.resize_min # Unset /\ layer.resize_max # Unset
  /\ layer.crop_min = Unset
  /\ out.status = "ConfigError"
  /\ torch_rng.draws = 2

\* C10: a returning CropResizePad call crops image and mask at one window
\* (i, j, h, w) of the resized planes and embeds both at one offset
\* (pad_top, pad_left) with 0 <= pad_top <= original_h - h and
\* 0 <= pad_left <= original_w - w; the mask is zero outside the embedded
\* window and the cropped mask inside, the image is the cropped image inside.
C10_Embedding ==
  (Called /\ IsCRP /\ out.status = "ok") =>
    LET loc == out.loc
        rimages == F_resize(image, loc.new_size)
        rmasks == F_resize_nearest(mask, loc.new_size)
        Inside(r, c) == /\ loc.pad_top < r /\ r <= loc.pad_top + loc.h
                        /\ loc.pad_left < c /\ c <= loc.pad_left + loc.w
    IN /\ 0 <= loc.pad_top /\ loc.pad_top <= image.h - loc.h
       /\ 0 <= loc.pad_left /\ loc.pad_left <= image.w - loc.w
       /\ loc.pad_bottom >= 0 /\ loc.pad_right >= 0
       /\ loc.pad_top + loc.h + loc.pad_bottom = image.h
       /\ loc.pad_left + loc.w + loc.pad_right = image.w
       /\ 0 <= loc.i /\ loc.i + loc.h <= loc.new_size[1]
       /\ 0 <= loc.j /\ loc.j + loc.w <= loc.new_size[2]
       /\ \A r \in 1..image.h, c \in 1..image.w :
            IF Inside(r, c)
            THEN /\ out.mask.px[r][c] =
                      rmasks.px[loc.i + r - loc.pad_top][loc.j + c - loc.pad_left]
                 /\ out.image.px[r][c] =
                      rimages.px[loc.i + r - loc.pad_top][loc.j + c - loc.pad_left]
            ELSE out.mask.px[r][c] = 0

C10_Witness ==
  /\ Called /\ IsCRP /\ out.status = "ok"
  /\ out.loc.h = 1 /\ out.loc.w = 1
  /\ image.h = 2 /\ image.w = 2
  /\ out.loc.new_size = <<2, 2>>
  /\ out.loc.i = 1 /\ out.loc.j = 0
  /\ out.loc.pad_top = 1 /\ out.loc.pad_left = 1
  /\ out.mask.px[2][2] = mask.px[2][1]
  /\ out.mask.px[1][1] = 0

====
